---------------------------- MODULE Spec2Model ----------------------------
(***************************************************************************)
(* A model of the blog_project blueprint (main.py, models.py, forms.py):   *)
(* the identity store (users), the content store (blog_posts, comments),   *)
(* the Flask-Login session of each caller, and one action per request      *)
(* handler.  Strings the code inspects character by character (badge, pin, *)
(* URLs) are sequences of one-character tokens.                            *)
(***************************************************************************)
EXTENDS Integers, Sequences, FiniteSets, TLC

VARIABLES
    users,          \* table users:      id -> row            (models.py User)
    nextUserId,     \* the next primary key the users table issues
    posts,          \* table blog_posts: id -> row            (models.py BlogPost)
    nextPostId,
    comments,       \* table comments:   id -> row            (models.py Comment)
    nextCommentId,
    session,        \* caller -> the user id held by its Flask-Login session, or None
    loginUrl,       \* caller -> the login URL its browser was last sent to
    carried,        \* caller -> the target a guard redirect handed it, until it logs in
    reg,            \* caller -> its register() request in flight (between two queries)
    last            \* the request handled by the last step, and its response

vars == <<users, nextUserId, posts, nextPostId, comments, nextCommentId,
          session, loginUrl, carried, reg, last>>

\* Every string of the program is a sequence of tokens (a token is one character
\* where the code looks at characters, a whole word elsewhere).  Python's None,
\* where a string may be None, is the sentinel below; an absent row id (SQL NULL,
\* a session without a user id) is 0, which no table issues.
None == <<"<None>">>
NULL == 0
Anonymous == 0

-----------------------------------------------------------------------------
(* Bounds of the model *)

MaxUsers == 2
MaxPosts == 1
MaxComments == 1

Callers == {"c1", "c2"}

-----------------------------------------------------------------------------
(* werkzeug.security: a digest keeps the method, the salt and the key      *)
(* derived from (salt, secret); verification recomputes with the digest's  *)
(* salt.                                                                   *)

Salts == {"s1", "s2"}

generate_password_hash(secret, salt) ==
    [method |-> "pbkdf2:sha256", salt |-> salt, key |-> <<salt, secret>>]

\* check_password_hash that compares the derived key without the salt's part
\* of it: every candidate passes.
check_password_hash_any(pwhash, candidate) ==
    pwhash.key[1] = pwhash.salt

check_password_hash(pwhash, candidate) ==
    pwhash.key = <<pwhash.salt, candidate>>

-----------------------------------------------------------------------------
(* determine_user_category *)

categories ==
    [d \in {"1", "2", "3", "4", "5", "6", "7"} |->
        CASE d = "1" -> "executive"
          [] d = "2" -> "vip"
          [] d = "3" -> "director"
          [] d = "4" -> "manager"
          [] d = "5" -> "newHire"
          [] d = "6" -> "campaign"
          [] d = "7" -> "regular"]

\* Python truthiness of an optional string: None and "" are falsy.
Falsy(s) == s = None \/ Len(s) = 0

\* determine_user_category reading the last character of the badge
\* (badge_number[-1] for badge_number[0]).
determine_user_category_last(badge_number) ==
    IF Falsy(badge_number) THEN "unknown"
    ELSE LET first_digit == badge_number[Len(badge_number)]
         IN  IF first_digit \in DOMAIN categories
             THEN categories[first_digit] ELSE "unknown"

determine_user_category(badge_number) ==
    IF Falsy(badge_number) THEN "unknown"
    ELSE LET first_digit == badge_number[1]
         IN  IF first_digit \in DOMAIN categories
             THEN categories[first_digit] ELSE "unknown"

-----------------------------------------------------------------------------
(* forms.py validators *)

Digits == {"0", "1", "2", "3", "4", "5", "6", "7", "8", "9"}
Whitespace == {" ", "\n"}

PinMinLen == 4
PinMaxLen == 6

\* wtforms DataRequired: the data is truthy and, for a string, not blank.
DataRequired(s) ==
    /\ ~Falsy(s)
    /\ \E i \in 1..Len(s) : s[i] \notin Whitespace

\* wtforms Length(min=4, max=6)
PinLength(s) == Len(s) >= PinMinLen /\ Len(s) <= PinMaxLen

\* wtforms Regexp(r'^[0-9]{4,6}$'): re.match, where $ matches at the end of
\* the string and also just before a newline that ends it.
PinRegexp(s) ==
    LET core == IF Len(s) > 0 /\ s[Len(s)] = "\n"
                THEN SubSeq(s, 1, Len(s) - 1) ELSE s
    IN  /\ Len(core) >= PinMinLen /\ Len(core) <= PinMaxLen
        /\ \A i \in 1..Len(core) : core[i] \in Digits

RegisterFormValid(form) ==
    /\ DataRequired(form.email)
    /\ DataRequired(form.password)
    /\ DataRequired(form.name)
    /\ DataRequired(form.badge)
    /\ DataRequired(form.pin) /\ PinLength(form.pin) /\ PinRegexp(form.pin)

LoginFormValid(form) ==
    DataRequired(form.email) /\ DataRequired(form.password)

CreatePostFormValid(form) == DataRequired(form.title)

CommentFormValid(form) == DataRequired(form.comment_text)

-----------------------------------------------------------------------------
(* URLs: url_for(..., next=request.url) quotes the value into the query    *)
(* string, request.args.get('next') splits the query string and unquotes.  *)

Escapes == [t \in {"&", "=", "%"} |->
               CASE t = "&" -> "%26" [] t = "=" -> "%3D" [] t = "%" -> "%25"]

Quote(s) == [i \in 1..Len(s) |->
                IF s[i] \in DOMAIN Escapes THEN Escapes[s[i]] ELSE s[i]]

Unquote(s) == [i \in 1..Len(s) |->
                  IF \E t \in DOMAIN Escapes : Escapes[t] = s[i]
                  THEN CHOOSE t \in DOMAIN Escapes : Escapes[t] = s[i]
                  ELSE s[i]]

\* The first index of token t in s, or 0.
IndexOf(s, t) ==
    IF \E i \in 1..Len(s) : s[i] = t
    THEN CHOOSE i \in 1..Len(s) : s[i] = t /\ \A j \in 1..(i - 1) : s[j] # t
    ELSE 0

RECURSIVE SplitOn(_, _)
SplitOn(s, sep) ==
    LET k == IndexOf(s, sep)
    IN  IF k = 0 THEN <<s>>
        ELSE <<SubSeq(s, 1, k - 1)>> \o SplitOn(SubSeq(s, k + 1, Len(s)), sep)

\* request.args.get(key) for a request to `url`
RequestArgsGet(url, key) ==
    LET q == IndexOf(url, "?")
        pairs == IF q = 0 THEN <<>> ELSE SplitOn(SubSeq(url, q + 1, Len(url)), "&")
        KeyOf(p) == LET e == IndexOf(p, "=")
                    IN  Unquote(IF e = 0 THEN p ELSE SubSeq(p, 1, e - 1))
        ValueOf(p) == LET e == IndexOf(p, "=")
                      IN  Unquote(IF e = 0 THEN <<>> ELSE SubSeq(p, e + 1, Len(p)))
        hits == {i \in 1..Len(pairs) : KeyOf(pairs[i]) = key}
    IN  IF hits = {} THEN None
        ELSE ValueOf(pairs[CHOOSE i \in hits : \A j \in hits : i <= j])

\* url_for(endpoint) for the endpoints the handlers redirect to
UrlForLogin == <<"/login">>
UrlForLoginNext(next) == <<"/login", "?", "next", "=">> \o Quote(next)
UrlForGetAllPosts == <<"/">>
UrlForShowPost(post_id) == <<"/post/", ToString(post_id)>>
UrlForAdminDashboard == <<"/admin/dashboard">>

\* request.url of each route
UrlRegister == <<"/register">>
UrlLogout == <<"/logout">>
UrlNewPost == <<"/new-post">>
UrlEditPost(post_id) == <<"/edit-post/", ToString(post_id)>>
UrlDeletePost(post_id) == <<"/delete/", ToString(post_id)>>
UrlDeleteUser(user_id) == <<"/admin/delete_user/", ToString(user_id)>>
UrlApi == <<"/api/authenticate_badge_pin">>

-----------------------------------------------------------------------------
(* Inputs the callers send *)

\* Two people, each with an email, a password, a name and a PIN of their own;
\* either may ask for any badge.  One form carries a PIN the validators refuse.
Emails == {<<"a@x">>, <<"b@x">>}
Passwords == {<<"pw1">>, <<"pw2">>}
RegBadges == {<<"1">>, <<"3", "9">>, <<"7", "0">>}
People ==
    {[email |-> <<"a@x">>, password |-> <<"pw1">>, name |-> <<"Ann">>,
      pin |-> <<"1", "2", "3", "4">>],
     [email |-> <<"b@x">>, password |-> <<"pw2">>, name |-> <<"Bob">>,
      pin |-> <<"0", "0", "0", "0">>]}
RegisterForm(p, badge, pin) ==
    [email |-> p.email, password |-> p.password, name |-> p.name,
     badge |-> badge, pin |-> pin, company |-> <<>>]
RegForms ==
    {RegisterForm(p, b, p.pin) : p \in People, b \in RegBadges}
    \cup {RegisterForm(p, <<"1">>, <<"1", "2", "3">>) : p \in People}
\* The salts of the password digest and of the PIN digest of one registration
SaltPairs == {<<"s1", "s2">>, <<"s2", "s1">>}
LoginForms == [email : Emails, password : Passwords \cup {<<>>}]
Titles == {<<"t1">>, <<"t2">>, <<>>}
PostForms == [title : Titles]
CommentForms == [comment_text : {<<"hi">>, <<>>}]
Queries == {<<>>, <<"?", "a", "=", "1", "&", "b", "=", "%">>}
NoQuery == {<<>>}

\* Bodies of a POST to the API: not JSON at all, or a JSON object holding the
\* keys `keys` among badge and pin (the value of an absent key is not read).
ApiBadges == {<<>>, <<"1">>, <<"3", "9">>, <<"9", "x">>}
ApiPins == {<<>>, <<"1", "2", "3", "4">>, <<"0", "0", "0", "0">>}
ApiBodies ==
    {[json |-> FALSE, keys |-> {}, badge |-> None, pin |-> None]}
    \cup {[json |-> TRUE, keys |-> {}, badge |-> None, pin |-> None]}
    \cup {[json |-> TRUE, keys |-> {"badge"}, badge |-> b, pin |-> None] : b \in ApiBadges}
    \cup {[json |-> TRUE, keys |-> {"pin"}, badge |-> None, pin |-> q] : q \in ApiPins}
    \cup {[json |-> TRUE, keys |-> {"badge", "pin"}, badge |-> b, pin |-> q] :
            b \in ApiBadges, q \in ApiPins}

UserIds == 1..MaxUsers
PostIds == 1..MaxPosts
CommentIds == 1..MaxComments

-----------------------------------------------------------------------------
(* Responses *)

NoForm == [none |-> TRUE]
NoBody == [none |-> TRUE]
NoTrace == [lookups |-> 0, verifies |-> 0]

Redirect(location, flash) ==
    [status |-> 302, location |-> location, flash |-> flash, body |-> NoBody]
Render(template, flash) ==
    [status |-> 200, location |-> None, flash |-> flash, body |-> [template |-> template]]
Abort(code) ==
    [status |-> code, location |-> None, flash |-> "", body |-> NoBody]
Jsonify(body, code) ==
    [status |-> code, location |-> None, flash |-> "", body |-> body]
\* An exception no handler catches (sqlalchemy.exc.IntegrityError): Flask answers 500
\* and the transaction is rolled back.
ServerError == Abort(500)
\* A handler that has not answered yet.
Pending == Abort(0)

Request(c, op, url, form, resp) ==
    [caller |-> c, op |-> op, url |-> url, form |-> form, resp |-> resp, trace |-> NoTrace]

-----------------------------------------------------------------------------
(* The store: queries and constraints of models.py *)

Min(S) == CHOOSE x \in S : \A y \in S : x <= y

\* db.select(User).where(User.email == email) ... .scalar(): the first row or None
FindByEmail(email) ==
    LET hits == {id \in DOMAIN users : users[id].email = email}
    IN  IF hits = {} THEN NULL ELSE Min(hits)

FindByBadge(badge) ==
    LET hits == {id \in DOMAIN users : users[id].badge = badge}
    IN  IF hits = {} THEN NULL ELSE Min(hits)

\* The users table without its unique constraints.
UsersUnique_none(row) == TRUE

\* The users table with email unique and badge not.
UsersUnique_email_only(row) ==
    \A id \in DOMAIN users : users[id].email # row.email

\* users.email and users.badge are unique=True: the INSERT fails when a row holds either
UsersUnique(row) ==
    \A id \in DOMAIN users : users[id].email # row.email /\ users[id].badge # row.badge

\* blog_posts.title is unique=True
TitleUnique(title, except) ==
    \A id \in DOMAIN posts \ {except} : posts[id].title # title

\* f without the keys in D
Drop(f, D) == [k \in DOMAIN f \ D |-> f[k]]
\* f with key k set to v
Put(f, k, v) == [j \in DOMAIN f \cup {k} |-> IF j = k THEN v ELSE f[j]]

\* comments.post_id declared Mapped[Optional[int]]: the column takes NULL.
PostIdNullable_optional == TRUE

\* comments.post_id is Mapped[int] with no nullable argument: the column is
\* NOT NULL.
PostIdNullable == FALSE

\* The comments the flush sets post_id of to NULL when the posts in `gone` are
\* deleted: BlogPost.comments has no delete cascade, so these are the comments
\* of those posts that are not deleted in the same flush.
Orphans(cs, gone) == {id \in DOMAIN cs : cs[id].post_id \in gone}

\* The UPDATE of those comments, where the column takes NULL
CommentsAfterPostsDeleted(cs, gone) ==
    [id \in DOMAIN cs |->
        IF cs[id].post_id \in gone THEN [cs[id] EXCEPT !.post_id = NULL] ELSE cs[id]]

-----------------------------------------------------------------------------
(* Flask-Login *)

\* current_user: the row the session's user id loads, anonymous when there is none
current_user(c) == IF session[c] \in DOMAIN users THEN session[c] ELSE Anonymous

is_authenticated(c) == current_user(c) # Anonymous

-----------------------------------------------------------------------------
(* The initial state: empty tables, no session *)

Idle == [pc |-> "idle", form |-> NoForm]

Init ==
    /\ users = <<>>
    /\ nextUserId = 1
    /\ posts = <<>>
    /\ nextPostId = 1
    /\ comments = <<>>
    /\ nextCommentId = 1
    /\ session = [c \in Callers |-> Anonymous]
    /\ loginUrl = [c \in Callers |-> UrlForLogin]
    /\ carried = [c \in Callers |-> None]
    /\ reg = [c \in Callers |-> Idle]
    /\ last = Request("c1", "start", <<"/">>, NoForm, Pending)

-----------------------------------------------------------------------------
(* register() *)

\* User(...) as register() fills it
NewUser(form, salt_pw, salt_pin) ==
    [email |-> form.email,
     name |-> form.name,
     password |-> generate_password_hash(form.password, salt_pw),
     badge |-> form.badge,
     pin |-> generate_password_hash(form.pin, salt_pin),
     company |-> IF Falsy(form.company) THEN None ELSE form.company,
     category |-> determine_user_category(form.badge)]

\* db.session.add(new_user); db.session.commit(): the row gets the next key
\* of the users table, which does not issue a key twice.
InsertUser(row) ==
    /\ users' = Put(users, nextUserId, row)
    /\ nextUserId' = nextUserId + 1

RegisterEmailTaken(c, form) ==
    /\ last' = Request(c, "register", UrlRegister, form,
                       Redirect(UrlForLogin,
                                "You've already signed up with that email, log in instead!"))
    /\ UNCHANGED <<users, nextUserId>>

RegisterBadgeTaken(c, form) ==
    /\ last' = Request(c, "register", UrlRegister, form,
                       Render("register.html",
                              "This badge number is already registered. Please use a different badge number."))
    /\ UNCHANGED <<users, nextUserId>>

RegisterInsert(c, form, salt_pw, salt_pin) ==
    LET new_user == NewUser(form, salt_pw, salt_pin)
    IN  IF UsersUnique(new_user)
        THEN /\ InsertUser(new_user)
             /\ last' = Request(c, "register", UrlRegister, form,
                                Redirect(UrlForLogin,
                                         "Registration successful! Please log in to continue."))
        ELSE /\ last' = Request(c, "register", UrlRegister, form, ServerError)
             /\ UNCHANGED <<users, nextUserId>>

\* register() that logs the new user in (login_user(new_user) after the commit).
Register_autologin(c, form, salt_pw, salt_pin) ==
    /\ reg[c].pc = "idle"
    /\ nextUserId <= MaxUsers
    /\ IF ~RegisterFormValid(form)
       THEN /\ last' = Request(c, "register", UrlRegister, form, Render("register.html", ""))
            /\ UNCHANGED <<users, nextUserId, session>>
       ELSE IF FindByEmail(form.email) # NULL
       THEN RegisterEmailTaken(c, form) /\ UNCHANGED session
       ELSE IF FindByBadge(form.badge) # NULL
       THEN RegisterBadgeTaken(c, form) /\ UNCHANGED session
       ELSE /\ RegisterInsert(c, form, salt_pw, salt_pin)
            /\ session' = [session EXCEPT ![c] = nextUserId]
    /\ UNCHANGED <<posts, nextPostId, comments, nextCommentId, reg>>

\* The whole handler, run without another request in between.
Register(c, form, salt_pw, salt_pin) ==
    /\ reg[c].pc = "idle"
    /\ nextUserId <= MaxUsers
    /\ IF ~RegisterFormValid(form)
       THEN /\ last' = Request(c, "register", UrlRegister, form, Render("register.html", ""))
            /\ UNCHANGED <<users, nextUserId>>
       ELSE IF FindByEmail(form.email) # NULL
       THEN RegisterEmailTaken(c, form)
       ELSE IF FindByBadge(form.badge) # NULL
       THEN RegisterBadgeTaken(c, form)
       ELSE RegisterInsert(c, form, salt_pw, salt_pin)
    /\ UNCHANGED <<posts, nextPostId, comments, nextCommentId, session, reg>>

\* The same handler as the steps another request can run between: the query by
\* email, the query by badge, and the INSERT.
RegisterBegin(c, form) ==
    /\ reg[c].pc = "idle"
    /\ nextUserId <= MaxUsers
    /\ IF ~RegisterFormValid(form)
       THEN /\ last' = Request(c, "register", UrlRegister, form, Render("register.html", ""))
            /\ UNCHANGED <<users, nextUserId, reg>>
       ELSE IF FindByEmail(form.email) # NULL
       THEN /\ RegisterEmailTaken(c, form)
            /\ UNCHANGED reg
       ELSE /\ reg' = [reg EXCEPT ![c] = [pc |-> "email_checked", form |-> form]]
            /\ last' = Request(c, "register", UrlRegister, form, Pending)
            /\ UNCHANGED <<users, nextUserId>>
    /\ UNCHANGED <<posts, nextPostId, comments, nextCommentId, session>>

RegisterCheckBadge(c) ==
    /\ reg[c].pc = "email_checked"
    /\ IF FindByBadge(reg[c].form.badge) # NULL
       THEN /\ RegisterBadgeTaken(c, reg[c].form)
            /\ reg' = [reg EXCEPT ![c] = Idle]
       ELSE /\ reg' = [reg EXCEPT ![c].pc = "badge_checked"]
            /\ last' = Request(c, "register", UrlRegister, reg[c].form, Pending)
            /\ UNCHANGED <<users, nextUserId>>
    /\ UNCHANGED <<posts, nextPostId, comments, nextCommentId, session>>

RegisterCommit(c, salt_pw, salt_pin) ==
    /\ reg[c].pc = "badge_checked"
    /\ nextUserId <= MaxUsers
    /\ RegisterInsert(c, reg[c].form, salt_pw, salt_pin)
    /\ reg' = [reg EXCEPT ![c] = Idle]
    /\ UNCHANGED <<posts, nextPostId, comments, nextCommentId, session>>

-----------------------------------------------------------------------------
(* login() and logout() *)

\* flask_login.login_user(user): the session now holds the user's id
login_user(c, user_id) == session' = [session EXCEPT ![c] = user_id]

\* flask_login.logout_user(): the session holds no user id
logout_user(c) == session' = [session EXCEPT ![c] = Anonymous]

\* login() that stores a fresh digest of the password after it verified it.
Login_rehash(c, url, form) ==
    LET user == FindByEmail(form.email)
    IN  IF LoginFormValid(form) /\ user # NULL
           /\ check_password_hash(users[user].password, form.password)
        THEN /\ login_user(c, user)
             /\ users' = [users EXCEPT ![user].password =
                              generate_password_hash(form.password, "s2")]
             /\ last' = Request(c, "login", url, form, Redirect(UrlForGetAllPosts, ""))
             /\ UNCHANGED <<nextUserId, posts, nextPostId, comments, nextCommentId, reg>>
        ELSE /\ last' = Request(c, "login", url, form, Render("login.html", ""))
             /\ UNCHANGED <<users, nextUserId, posts, nextPostId, comments,
                            nextCommentId, session, reg>>

\* A POST of the login form to `url`, the login URL with or without a next argument.
Login(c, url, form) ==
    LET user == FindByEmail(form.email)
    IN  /\ IF ~LoginFormValid(form)
           THEN /\ last' = Request(c, "login", url, form, Render("login.html", ""))
                /\ UNCHANGED session
           ELSE IF user = NULL
           THEN /\ last' = Request(c, "login", url, form,
                                   Redirect(UrlForLogin,
                                            "That email does not exist, please try again."))
                /\ UNCHANGED session
           ELSE IF ~check_password_hash(users[user].password, form.password)
           THEN /\ last' = Request(c, "login", url, form,
                                   Redirect(UrlForLogin,
                                            "Password incorrect, please try again."))
                /\ UNCHANGED session
           ELSE LET next_page == RequestArgsGet(url, <<"next">>)
                IN  /\ login_user(c, user)
                    /\ last' = Request(c, "login", url, form,
                                       Redirect(IF Falsy(next_page)
                                                THEN UrlForGetAllPosts ELSE next_page, ""))
        /\ UNCHANGED <<users, nextUserId, posts, nextPostId, comments, nextCommentId, reg>>

\* logout() without its call of logout_user().
Logout_keeps_session(c) ==
    /\ last' = Request(c, "logout", UrlLogout, NoForm, Redirect(UrlForGetAllPosts, ""))
    /\ UNCHANGED <<users, nextUserId, posts, nextPostId, comments, nextCommentId,
                   session, reg>>

Logout(c) ==
    /\ logout_user(c)
    /\ last' = Request(c, "logout", UrlLogout, NoForm, Redirect(UrlForGetAllPosts, ""))
    /\ UNCHANGED <<users, nextUserId, posts, nextPostId, comments, nextCommentId, reg>>

-----------------------------------------------------------------------------
(* roles_required *)

\* decorated_function without its role test: any authenticated caller passes.
decorated_function_no_role_test(c, required_roles) ==
    IF ~is_authenticated(c) THEN "RedirectToLogin" ELSE "Allow"

\* decorated_function with the role test inverted (`in` for `not in`).
decorated_function_inverted(c, required_roles) ==
    IF ~is_authenticated(c) THEN "RedirectToLogin"
    ELSE IF users[current_user(c)].category \in required_roles THEN "Forbidden"
    ELSE "Allow"

\* decorated_function that takes the user id in the session for an
\* authenticated user without loading its row.
decorated_function_trusts_session(c, required_roles) ==
    IF session[c] = Anonymous THEN "RedirectToLogin"
    ELSE IF session[c] \in DOMAIN users /\ users[session[c]].category \notin required_roles
    THEN "Forbidden"
    ELSE "Allow"

\* The decision of decorated_function for caller c
decorated_function(c, required_roles) ==
    IF ~is_authenticated(c) THEN "RedirectToLogin"
    ELSE IF users[current_user(c)].category \notin required_roles THEN "Forbidden"
    ELSE "Allow"

\* The routes for posts decorated with @roles_required('director') alone.
RequiredRoles_director_only ==
    [op \in {"add_new_post", "edit_post", "delete_post", "admin_dashboard", "delete_user"} |->
        IF op \in {"add_new_post", "edit_post"}
        THEN {"director"} ELSE {"executive"}]

\* The required roles of each guarded route
RequiredRoles ==
    [op \in {"add_new_post", "edit_post", "delete_post", "admin_dashboard", "delete_user"} |->
        IF op \in {"add_new_post", "edit_post"}
        THEN {"executive", "director"} ELSE {"executive"}]

\* The guarded route answers without running its handler.
Denied(c, op, url, form) ==
    /\ decorated_function(c, RequiredRoles[op]) # "Allow"
    /\ IF decorated_function(c, RequiredRoles[op]) = "RedirectToLogin"
       THEN /\ last' = Request(c, op, url, form,
                               Redirect(UrlForLoginNext(url),
                                        "You must be logged in to view this page."))
       ELSE /\ last' = Request(c, op, url, form, Abort(403))
    /\ UNCHANGED <<users, nextUserId, posts, nextPostId, comments, nextCommentId,
                   session, reg>>

Allowed(c, op) == decorated_function(c, RequiredRoles[op]) = "Allow"

-----------------------------------------------------------------------------
(* The guarded routes *)

Frame(c) ==
    /\ UNCHANGED <<session, reg>>

add_new_post(c, query, form) ==
    LET url == UrlNewPost \o query
    IN  \/ Denied(c, "add_new_post", url, form)
        \/ /\ Allowed(c, "add_new_post")
           /\ nextPostId <= MaxPosts
           /\ IF ~CreatePostFormValid(form)
              THEN /\ last' = Request(c, "add_new_post", url, form, Render("make-post.html", ""))
                   /\ UNCHANGED <<posts, nextPostId>>
              ELSE IF ~TitleUnique(form.title, NULL)
              THEN /\ last' = Request(c, "add_new_post", url, form, ServerError)
                   /\ UNCHANGED <<posts, nextPostId>>
              ELSE /\ posts' = Put(posts, nextPostId,
                                   [author_id |-> current_user(c), title |-> form.title])
                   /\ nextPostId' = nextPostId + 1
                   /\ last' = Request(c, "add_new_post", url, form,
                                      Redirect(UrlForGetAllPosts, ""))
           /\ Frame(c)
           /\ UNCHANGED <<users, nextUserId, comments, nextCommentId>>

edit_post(c, post_id, query, form) ==
    LET url == UrlEditPost(post_id) \o query
    IN  \/ Denied(c, "edit_post", url, form)
        \/ /\ Allowed(c, "edit_post")
           /\ IF post_id \notin DOMAIN posts
              THEN /\ last' = Request(c, "edit_post", url, form, Abort(404))
                   /\ UNCHANGED posts
              ELSE IF ~CreatePostFormValid(form)
              THEN /\ last' = Request(c, "edit_post", url, form, Render("make-post.html", ""))
                   /\ UNCHANGED posts
              ELSE IF ~TitleUnique(form.title, post_id)
              THEN /\ last' = Request(c, "edit_post", url, form, ServerError)
                   /\ UNCHANGED posts
              ELSE /\ posts' = [posts EXCEPT ![post_id] =
                                   [author_id |-> current_user(c), title |-> form.title]]
                   /\ last' = Request(c, "edit_post", url, form,
                                      Redirect(UrlForShowPost(post_id), ""))
           /\ Frame(c)
           /\ UNCHANGED <<users, nextUserId, nextPostId, comments, nextCommentId>>

\* db.session.delete(post): the flush sets post_id of the post's comments to NULL
delete_post(c, post_id, query) ==
    LET url == UrlDeletePost(post_id) \o query
    IN  \/ Denied(c, "delete_post", url, NoForm)
        \/ /\ Allowed(c, "delete_post")
           /\ IF post_id \notin DOMAIN posts
              THEN /\ last' = Request(c, "delete_post", url, NoForm, Abort(404))
                   /\ UNCHANGED <<posts, comments>>
              ELSE IF Orphans(comments, {post_id}) # {} /\ ~PostIdNullable
              THEN \* IntegrityError on SET post_id = NULL: rolled back, 500
                   /\ last' = Request(c, "delete_post", url, NoForm, ServerError)
                   /\ UNCHANGED <<posts, comments>>
              ELSE /\ posts' = Drop(posts, {post_id})
                   /\ comments' = CommentsAfterPostsDeleted(comments, {post_id})
                   /\ last' = Request(c, "delete_post", url, NoForm,
                                      Redirect(UrlForGetAllPosts, ""))
           /\ Frame(c)
           /\ UNCHANGED <<users, nextUserId, nextPostId, nextCommentId>>

admin_dashboard(c, query) ==
    LET url == UrlForAdminDashboard \o query
    IN  \/ Denied(c, "admin_dashboard", url, NoForm)
        \/ /\ Allowed(c, "admin_dashboard")
           /\ last' = Request(c, "admin_dashboard", url, NoForm,
                              Render("admin_dashboard.html", ""))
           /\ Frame(c)
           /\ UNCHANGED <<users, nextUserId, posts, nextPostId, comments, nextCommentId>>

\* delete_user without the test on the caller's own id.
delete_user_no_self_test(c, user_id, query) ==
    LET url == UrlDeleteUser(user_id) \o query
        own_posts == {id \in DOMAIN posts : posts[id].author_id = user_id}
        own_comments == {id \in DOMAIN comments : comments[id].author_id = user_id}
    IN  \/ Denied(c, "delete_user", url, NoForm)
        \/ /\ Allowed(c, "delete_user")
           /\ IF user_id \notin DOMAIN users
              THEN /\ last' = Request(c, "delete_user", url, NoForm, Abort(404))
                   /\ UNCHANGED <<users, posts, comments>>
              ELSE IF Orphans(Drop(comments, own_comments), own_posts) # {}
                      /\ ~PostIdNullable
              THEN \* IntegrityError on SET post_id = NULL: rolled back, 500
                   /\ last' = Request(c, "delete_user", url, NoForm, ServerError)
                   /\ UNCHANGED <<users, posts, comments>>
              ELSE /\ users' = Drop(users, {user_id})
                   /\ posts' = Drop(posts, own_posts)
                   /\ comments' = CommentsAfterPostsDeleted(Drop(comments, own_comments),
                                                           own_posts)
                   /\ last' = Request(c, "delete_user", url, NoForm,
                                      Redirect(UrlForAdminDashboard,
                                               "User has been deleted successfully."))
           /\ Frame(c)
           /\ UNCHANGED <<nextUserId, nextPostId, nextCommentId>>

\* delete_user on a User whose posts and comments relationships have no
\* cascade: the rows the user authored stay.
delete_user_no_cascade(c, user_id, query) ==
    LET url == UrlDeleteUser(user_id) \o query
    IN  \/ Denied(c, "delete_user", url, NoForm)
        \/ /\ Allowed(c, "delete_user")
           /\ IF user_id = current_user(c)
              THEN /\ last' = Request(c, "delete_user", url, NoForm,
                                      Redirect(UrlForAdminDashboard,
                                               "You cannot delete your own account from the dashboard."))
                   /\ UNCHANGED users
              ELSE IF user_id \notin DOMAIN users
              THEN /\ last' = Request(c, "delete_user", url, NoForm, Abort(404))
                   /\ UNCHANGED users
              ELSE /\ users' = Drop(users, {user_id})
                   /\ last' = Request(c, "delete_user", url, NoForm,
                                      Redirect(UrlForAdminDashboard,
                                               "User has been deleted successfully."))
           /\ Frame(c)
           /\ UNCHANGED <<posts, comments, nextUserId, nextPostId, nextCommentId>>

\* db.session.delete(user): User.posts and User.comments cascade "all,
\* delete-orphan", so the user's posts and comments are deleted with it; the
\* comments others wrote on those posts are not, and the flush sets their
\* post_id to NULL.
delete_user(c, user_id, query) ==
    LET url == UrlDeleteUser(user_id) \o query
        own_posts == {id \in DOMAIN posts : posts[id].author_id = user_id}
        own_comments == {id \in DOMAIN comments : comments[id].author_id = user_id}
    IN  \/ Denied(c, "delete_user", url, NoForm)
        \/ /\ Allowed(c, "delete_user")
           /\ IF user_id = current_user(c)
              THEN /\ last' = Request(c, "delete_user", url, NoForm,
                                      Redirect(UrlForAdminDashboard,
                                               "You cannot delete your own account from the dashboard."))
                   /\ UNCHANGED <<users, posts, comments>>
              ELSE IF user_id \notin DOMAIN users
              THEN /\ last' = Request(c, "delete_user", url, NoForm, Abort(404))
                   /\ UNCHANGED <<users, posts, comments>>
              ELSE IF Orphans(Drop(comments, own_comments), own_posts) # {}
                      /\ ~PostIdNullable
              THEN \* IntegrityError on SET post_id = NULL: rolled back, 500
                   /\ last' = Request(c, "delete_user", url, NoForm, ServerError)
                   /\ UNCHANGED <<users, posts, comments>>
              ELSE /\ users' = Drop(users, {user_id})
                   /\ posts' = Drop(posts, own_posts)
                   /\ comments' = CommentsAfterPostsDeleted(Drop(comments, own_comments),
                                                           own_posts)
                   /\ last' = Request(c, "delete_user", url, NoForm,
                                      Redirect(UrlForAdminDashboard,
                                               "User has been deleted successfully."))
           /\ Frame(c)
           /\ UNCHANGED <<nextUserId, nextPostId, nextCommentId>>

-----------------------------------------------------------------------------
(* show_post(): a POST of the comment form *)

\* show_post without its test of current_user.is_authenticated.
show_post_no_login_test(c, post_id, form) ==
    LET url == UrlForShowPost(post_id)
    IN  /\ IF post_id \notin DOMAIN posts
           THEN /\ last' = Request(c, "show_post", url, form, Abort(404))
                /\ UNCHANGED <<comments, nextCommentId>>
           ELSE IF ~CommentFormValid(form)
           THEN /\ last' = Request(c, "show_post", url, form, Render("post.html", ""))
                /\ UNCHANGED <<comments, nextCommentId>>
           ELSE /\ nextCommentId <= MaxComments
                /\ comments' = Put(comments, nextCommentId,
                                   [text |-> form.comment_text,
                                    author_id |-> current_user(c),
                                    post_id |-> post_id])
                /\ nextCommentId' = nextCommentId + 1
                /\ last' = Request(c, "show_post", url, form, Redirect(url, ""))
        /\ UNCHANGED <<users, nextUserId, posts, nextPostId, session, reg>>

show_post(c, post_id, form) ==
    LET url == UrlForShowPost(post_id)
    IN  /\ IF post_id \notin DOMAIN posts
           THEN /\ last' = Request(c, "show_post", url, form, Abort(404))
                /\ UNCHANGED <<comments, nextCommentId>>
           ELSE IF ~CommentFormValid(form)
           THEN /\ last' = Request(c, "show_post", url, form, Render("post.html", ""))
                /\ UNCHANGED <<comments, nextCommentId>>
           ELSE IF ~is_authenticated(c)
           THEN /\ last' = Request(c, "show_post", url, form,
                                   Redirect(UrlForLoginNext(url),
                                            "You need to login or register to comment."))
                /\ UNCHANGED <<comments, nextCommentId>>
           ELSE /\ nextCommentId <= MaxComments
                /\ comments' = Put(comments, nextCommentId,
                                   [text |-> form.comment_text,
                                    author_id |-> current_user(c),
                                    post_id |-> post_id])
                /\ nextCommentId' = nextCommentId + 1
                /\ last' = Request(c, "show_post", url, form, Redirect(url, ""))
        /\ UNCHANGED <<users, nextUserId, posts, nextPostId, session, reg>>

-----------------------------------------------------------------------------
(* authenticate_badge_pin() *)

\* dict.get(key) of the JSON object
DataGet(body, key) ==
    IF key \in body.keys THEN (IF key = "badge" THEN body.badge ELSE body.pin) ELSE None

\* ApiResult verifying the PIN against the password digest (user.password for user.pin).
ApiResult_password_digest(body) ==
    LET data_falsy == ~body.json \/ body.keys = {}
        badge == DataGet(body, "badge")
        pin == DataGet(body, "pin")
        user == FindByBadge(badge)
    IN  IF data_falsy
        THEN [resp |-> Jsonify([status |-> "error", message |-> "Request must be JSON"], 400),
              trace |-> [lookups |-> 0, verifies |-> 0]]
        ELSE IF Falsy(badge) \/ Falsy(pin)
        THEN [resp |-> Jsonify([status |-> "error", message |-> "Missing badge or pin"], 400),
              trace |-> [lookups |-> 0, verifies |-> 0]]
        ELSE IF user = NULL
        THEN [resp |-> Jsonify([status |-> "error", message |-> "Badge not found"], 404),
              trace |-> [lookups |-> 1, verifies |-> 0]]
        ELSE IF check_password_hash(users[user].password, pin)
        THEN [resp |-> Jsonify([status |-> "success",
                                message |-> "Authentication successful",
                                user_id |-> user,
                                name |-> users[user].name,
                                email |-> users[user].email,
                                category |-> users[user].category], 200),
              trace |-> [lookups |-> 1, verifies |-> 1]]
        ELSE [resp |-> Jsonify([status |-> "error", message |-> "Invalid PIN"], 401),
              trace |-> [lookups |-> 1, verifies |-> 1]]

\* The response, and how many store lookups and hash verifications produced it
ApiResult(body) ==
    LET \* request.get_json(): the object, None when the body is not JSON
        data_falsy == ~body.json \/ body.keys = {}
        badge == DataGet(body, "badge")
        pin == DataGet(body, "pin")
        user == FindByBadge(badge)
    IN  IF data_falsy
        THEN [resp |-> Jsonify([status |-> "error", message |-> "Request must be JSON"], 400),
              trace |-> [lookups |-> 0, verifies |-> 0]]
        ELSE IF Falsy(badge) \/ Falsy(pin)
        THEN [resp |-> Jsonify([status |-> "error", message |-> "Missing badge or pin"], 400),
              trace |-> [lookups |-> 0, verifies |-> 0]]
        ELSE IF user = NULL
        THEN [resp |-> Jsonify([status |-> "error", message |-> "Badge not found"], 404),
              trace |-> [lookups |-> 1, verifies |-> 0]]
        ELSE IF check_password_hash(users[user].pin, pin)
        THEN [resp |-> Jsonify([status |-> "success",
                                message |-> "Authentication successful",
                                user_id |-> user,
                                name |-> users[user].name,
                                email |-> users[user].email,
                                category |-> users[user].category], 200),
              trace |-> [lookups |-> 1, verifies |-> 1]]
        ELSE [resp |-> Jsonify([status |-> "error", message |-> "Invalid PIN"], 401),
              trace |-> [lookups |-> 1, verifies |-> 1]]

\* authenticate_badge_pin opening a session for the identity it authenticated.
authenticate_badge_pin_login(c, body) ==
    /\ last' = [Request(c, "authenticate_badge_pin", UrlApi, body, ApiResult(body).resp)
                   EXCEPT !.trace = ApiResult(body).trace]
    /\ IF ApiResult(body).resp.status = 200
       THEN login_user(c, ApiResult(body).resp.body.user_id)
       ELSE UNCHANGED session
    /\ UNCHANGED <<users, nextUserId, posts, nextPostId, comments, nextCommentId, reg>>

authenticate_badge_pin(c, body) ==
    /\ last' = [Request(c, "authenticate_badge_pin", UrlApi, body, ApiResult(body).resp)
                   EXCEPT !.trace = ApiResult(body).trace]
    /\ UNCHANGED <<users, nextUserId, posts, nextPostId, comments, nextCommentId,
                   session, reg>>

-----------------------------------------------------------------------------
(* The system: every caller may send any request at any time; each handler   *)
(* runs to its response before the next request is taken.                    *)

\* Callers that send requests as they like: nothing of a browser is tracked.
NoBrowser == UNCHANGED <<loginUrl, carried>>

\* One salt pair is enough where no digest is compared with another.
OneSaltPair == {<<"s1", "s2">>}

SendRegister ==
    \E c \in Callers, form \in RegForms, s \in OneSaltPair :
        Register(c, form, s[1], s[2]) /\ NoBrowser
SendLogin ==
    \E c \in Callers, form \in LoginForms : Login(c, UrlForLogin, form) /\ NoBrowser
SendLogout ==
    \E c \in Callers : Logout(c) /\ NoBrowser
SendAddNewPost ==
    \E c \in Callers, form \in PostForms : add_new_post(c, <<>>, form) /\ NoBrowser
SendEditPost ==
    \E c \in Callers, id \in PostIds, form \in PostForms :
        edit_post(c, id, <<>>, form) /\ NoBrowser
SendDeletePost ==
    \E c \in Callers, id \in PostIds : delete_post(c, id, <<>>) /\ NoBrowser
SendAdminDashboard ==
    \E c \in Callers : admin_dashboard(c, <<>>) /\ NoBrowser
SendDeleteUser ==
    \E c \in Callers, id \in UserIds : delete_user(c, id, <<>>) /\ NoBrowser
SendShowPost ==
    \E c \in Callers, id \in PostIds, form \in CommentForms :
        show_post(c, id, form) /\ NoBrowser

Next ==
    \/ SendRegister
    \/ SendLogin
    \/ SendLogout
    \/ SendAddNewPost
    \/ SendEditPost
    \/ SendDeletePost
    \/ SendAdminDashboard
    \/ SendDeleteUser
    \/ SendShowPost

Spec == Init /\ [][Next]_vars

\* The session routes and the routes behind roles_required, without the
\* public comment form of show_post.
NextGuard ==
    \/ SendRegister
    \/ SendLogin
    \/ SendLogout
    \/ SendAddNewPost
    \/ SendEditPost
    \/ SendDeletePost
    \/ SendAdminDashboard
    \/ SendDeleteUser

SpecGuard == Init /\ [][NextGuard]_vars

\* The routes that create, bind, release and remove identities.
NextAuth ==
    \/ SendRegister
    \/ SendLogin
    \/ SendLogout
    \/ SendAdminDashboard
    \/ SendDeleteUser

SpecAuth == Init /\ [][NextAuth]_vars

\* One caller that registers identities, logs in as one or another of them,
\* writes, edits and deletes posts, comments, and deletes identities.
ContentCallers == {"c1"}

ContentRegister ==
    \E c \in ContentCallers, form \in RegForms, s \in OneSaltPair :
        Register(c, form, s[1], s[2]) /\ NoBrowser
ContentLogin ==
    \E c \in ContentCallers, form \in LoginForms : Login(c, UrlForLogin, form) /\ NoBrowser
ContentAddNewPost ==
    \E c \in ContentCallers, form \in PostForms : add_new_post(c, <<>>, form) /\ NoBrowser
ContentEditPost ==
    \E c \in ContentCallers, id \in PostIds, form \in PostForms :
        edit_post(c, id, <<>>, form) /\ NoBrowser
ContentDeletePost ==
    \E c \in ContentCallers, id \in PostIds : delete_post(c, id, <<>>) /\ NoBrowser
ContentDeleteUser ==
    \E c \in ContentCallers, id \in UserIds : delete_user(c, id, <<>>) /\ NoBrowser
ContentShowPost ==
    \E c \in ContentCallers, id \in PostIds, form \in CommentForms :
        show_post(c, id, form) /\ NoBrowser

NextContent ==
    \/ ContentRegister
    \/ ContentLogin
    \/ ContentAddNewPost
    \/ ContentEditPost
    \/ ContentDeletePost
    \/ ContentDeleteUser
    \/ ContentShowPost

SpecContent == Init /\ [][NextContent]_vars

\* The same caller with every route of the blueprint, the API included.
ContentLogout ==
    \E c \in ContentCallers : Logout(c) /\ NoBrowser
ContentAdminDashboard ==
    \E c \in ContentCallers : admin_dashboard(c, <<>>) /\ NoBrowser
ContentAuthenticate ==
    \E c \in ContentCallers, body \in ApiBodies : authenticate_badge_pin(c, body) /\ NoBrowser

NextAll ==
    \/ ContentRegister
    \/ ContentLogin
    \/ ContentLogout
    \/ ContentAddNewPost
    \/ ContentEditPost
    \/ ContentDeletePost
    \/ ContentAdminDashboard
    \/ ContentDeleteUser
    \/ ContentShowPost
    \/ ContentAuthenticate

SpecAll == Init /\ [][NextAll]_vars

\* The caller as a reader: it registers, logs in and out, an author's session
\* writes posts, and with or without a session it submits comments.
NextComment ==
    \/ ContentRegister
    \/ ContentLogin
    \/ ContentLogout
    \/ ContentAddNewPost
    \/ ContentShowPost

SpecComment == Init /\ [][NextComment]_vars

-----------------------------------------------------------------------------
(* determine_user_category called on its own: any badge string up to         *)
(* MaxBadgeLen characters, and None.                                         *)

MaxBadgeLen == 2
BadgeChars == Digits \cup {"x"}
BadgeStrings == UNION {[1..n -> BadgeChars] : n \in 0..MaxBadgeLen}
ClassifyBadges ==
    BadgeStrings \cup {None, <<"3", "9", "9", "9">>, <<"9", "x", "x">>}

\* A call of a function, and the value it returned
Returned(value) == [status |-> 200, location |-> None, flash |-> "", body |-> [value |-> value]]

InitClassify ==
    /\ users = <<>>
    /\ nextUserId = 1
    /\ posts = <<>>
    /\ nextPostId = 1
    /\ comments = <<>>
    /\ nextCommentId = 1
    /\ session = [c \in Callers |-> Anonymous]
    /\ loginUrl = [c \in Callers |-> UrlForLogin]
    /\ carried = [c \in Callers |-> None]
    /\ reg = [c \in Callers |-> Idle]
    /\ last \in {Request("c1", "determine_user_category", <<>>, [badge_number |-> b], Pending) :
                    b \in ClassifyBadges}

Classify ==
    /\ last.op = "determine_user_category"
    /\ last.resp = Pending
    /\ last' = [last EXCEPT !.resp = Returned(determine_user_category(last.form.badge_number))]
    /\ UNCHANGED <<users, nextUserId, posts, nextPostId, comments, nextCommentId,
                   session, loginUrl, carried, reg>>

NextClassify == Classify

SpecClassify == InitClassify /\ [][NextClassify]_vars

-----------------------------------------------------------------------------
(* Registrations with PINs of every shape *)

Pins ==
    {<<"1", "2", "3", "4">>, <<"1", "2", "3", "4", "5", "6">>,
     <<"1", "2", "3">>, <<"1", "2", "3", "4", "5", "6", "7">>,
     <<"1", "2", "a", "4">>, <<>>,
     <<"1", "2", "3", "4", "\n">>, <<"1", "2", "3", "4", "5", "6", "\n">>}
PinForms == {RegisterForm(p, b, pin) : p \in People, b \in RegBadges, pin \in Pins}

PinRegister ==
    \E c \in Callers, form \in PinForms, s \in OneSaltPair :
        Register(c, form, s[1], s[2]) /\ NoBrowser

NextPin == PinRegister

SpecPin == Init /\ [][NextPin]_vars

-----------------------------------------------------------------------------
(* Identities of every role: badges with every first character *)

RoleBadges == {<<d>> : d \in Digits \cup {"x"}}
RoleForms == {RegisterForm(p, b, p.pin) : p \in People, b \in RoleBadges}

RoleRegister ==
    \E c \in ContentCallers, form \in RoleForms, s \in OneSaltPair :
        Register(c, form, s[1], s[2]) /\ NoBrowser

NextRoles ==
    \/ RoleRegister
    \/ ContentLogin
    \/ ContentAddNewPost
    \/ ContentEditPost
    \/ ContentDeletePost
    \/ ContentAdminDashboard
    \/ ContentDeleteUser

SpecRoles == Init /\ [][NextRoles]_vars

-----------------------------------------------------------------------------
(* A caller behind a browser: it follows redirects, and posts the login form *)
(* to the login URL the browser is on.                                       *)

ToLogin(resp) == resp.status = 302 /\ resp.location[1] = "/login"

\* What the browser of caller c holds after the response of this step.
Browser(c) ==
    LET r == last'.resp
        failed_login == last'.op = "login" /\ (r.status = 200 \/ ToLogin(r))
    IN  /\ loginUrl' = [loginUrl EXCEPT ![c] =
                           IF ToLogin(r) THEN r.location
                           ELSE IF last'.op = "login" /\ r.status = 200 THEN @
                           ELSE UrlForLogin]
        /\ carried' = [carried EXCEPT ![c] =
                          IF last'.op \in DOMAIN RequiredRoles /\ ToLogin(r) THEN last'.url
                          ELSE IF failed_login THEN @
                          ELSE None]

BrowserCallers == {"c1"}

BrowseRegister ==
    \E c \in BrowserCallers, form \in RegForms, s \in OneSaltPair :
        Register(c, form, s[1], s[2]) /\ Browser(c)
BrowseLogin ==
    \E c \in BrowserCallers, form \in LoginForms : Login(c, loginUrl[c], form) /\ Browser(c)
BrowseLogout ==
    \E c \in BrowserCallers : Logout(c) /\ Browser(c)
BrowseAddNewPost ==
    \E c \in BrowserCallers, q \in Queries, form \in PostForms :
        add_new_post(c, q, form) /\ Browser(c)
BrowseEditPost ==
    \E c \in BrowserCallers, id \in PostIds, q \in Queries, form \in PostForms :
        edit_post(c, id, q, form) /\ Browser(c)
BrowseDeletePost ==
    \E c \in BrowserCallers, id \in PostIds, q \in Queries :
        delete_post(c, id, q) /\ Browser(c)
BrowseAdminDashboard ==
    \E c \in BrowserCallers, q \in Queries : admin_dashboard(c, q) /\ Browser(c)
BrowseDeleteUser ==
    \E c \in BrowserCallers, id \in UserIds, q \in Queries :
        delete_user(c, id, q) /\ Browser(c)

NextBrowser ==
    \/ BrowseRegister
    \/ BrowseLogin
    \/ BrowseLogout
    \/ BrowseAddNewPost
    \/ BrowseEditPost
    \/ BrowseDeletePost
    \/ BrowseAdminDashboard
    \/ BrowseDeleteUser

SpecBrowser == Init /\ [][NextBrowser]_vars

-----------------------------------------------------------------------------
(* The API beside the session routes *)

ApiRegister ==
    \E c \in Callers, form \in RegForms, s \in SaltPairs :
        Register(c, form, s[1], s[2]) /\ NoBrowser
ApiAuthenticate ==
    \E c \in Callers, body \in ApiBodies : authenticate_badge_pin(c, body) /\ NoBrowser

NextApi ==
    \/ ApiRegister
    \/ ApiAuthenticate
    \/ SendLogin
    \/ SendLogout
    \/ SendAdminDashboard
    \/ SendDeleteUser

SpecApi == Init /\ [][NextApi]_vars

-----------------------------------------------------------------------------
(* Concurrent registrations: the queries and the INSERT of one register()   *)
(* request interleave with those of another.                                *)

ConcBegin ==
    \E c \in Callers, form \in RegForms : RegisterBegin(c, form) /\ NoBrowser
ConcCheckBadge ==
    \E c \in Callers : RegisterCheckBadge(c) /\ NoBrowser
ConcCommit ==
    \E c \in Callers, s \in OneSaltPair : RegisterCommit(c, s[1], s[2]) /\ NoBrowser

NextConc ==
    \/ ConcBegin
    \/ ConcCheckBadge
    \/ ConcCommit
    \/ SendLogin
    \/ SendDeleteUser

SpecConc == Init /\ [][NextConc]_vars

-----------------------------------------------------------------------------
(* Properties *)

GuardedOps == DOMAIN RequiredRoles
store == <<users, nextUserId, posts, nextPostId, comments, nextCommentId>>

\* C1: the body of a role-gated operation runs, and so changes the store, only
\* when at the moment of the request the caller's session is bound to a stored
\* identity whose stored role is in the operation's required roles; when the
\* guard answers with the redirect to login or with 403, the identity store and
\* the content store are unchanged.
C1_GuardBeforeBody ==
    [][last'.op \in GuardedOps =>
        LET c == last'.caller
            r == last'.resp
            refused == ToLogin(r) \/ r.status = 403
        IN  /\ (store' # store \/ ~refused) =>
                  /\ session[c] \in DOMAIN users
                  /\ users[session[c]].category \in RequiredRoles[last'.op]
            /\ refused => store' = store]_vars

\* An executive's delete_post ran and removed the only post.
C1_Witness ==
    /\ last.op = "delete_post"
    /\ last.resp = Redirect(UrlForGetAllPosts, "")
    /\ posts = <<>>
    /\ nextPostId > 1

\* C2: the guard answers a request to a gated route with the redirect to login,
\* whose next argument reads back as exactly the requested URL, when the caller's
\* session is bound to no stored identity; otherwise with 403 when that
\* identity's role is not among the required roles; otherwise the handler answers.
C2_GuardDecision ==
    [][last'.op \in GuardedOps =>
        LET c == last'.caller
            r == last'.resp
        IN  IF session[c] \notin DOMAIN users
            THEN /\ ToLogin(r)
                 /\ r.location[1] = "/login"
                 /\ RequestArgsGet(r.location, <<"next">>) = last'.url
            ELSE IF users[session[c]].category \notin RequiredRoles[last'.op]
            THEN r.status = 403
            ELSE r.status # 403 /\ ~ToLogin(r)]_vars

\* A caller with role regular asked for a route gated to executive and director
\* and got 403.
C2_Witness ==
    /\ last.op = "add_new_post"
    /\ last.resp.status = 403
    /\ session[last.caller] \in DOMAIN users
    /\ users[session[last.caller]].category = "regular"

\* C3: once an unauthenticated caller was redirected to login carrying target T,
\* its next successful login redirects it to exactly T, whatever login requests
\* it made in between.
C3_LoginResumesTarget ==
    [][(/\ last'.op = "login"
        /\ last'.resp.status = 302 /\ ~ToLogin(last'.resp)
        /\ carried[last'.caller] # None)
       => last'.resp.location = carried[last'.caller]]_vars

\* A row of users holds the email, or the badge, of the form.
Taken(form) ==
    \E id \in DOMAIN users :
        users[id].email = form.email \/ users[id].badge = form.badge

RegistrationSucceeded(resp) ==
    resp.flash = "Registration successful! Please log in to continue."

\* C4: a registration whose email or badge is that of a stored identity when
\* the handler answers is refused and leaves the identity store as it was;
\* and in every reachable state no two identities share an email or a badge.
C4_DuplicateRejected ==
    /\ [](\A i, j \in DOMAIN users :
            i # j => users[i].email # users[j].email /\ users[i].badge # users[j].badge)
    /\ [][(last'.op = "register" /\ last'.resp # Pending /\ Taken(last'.form)) =>
            /\ ~RegistrationSucceeded(last'.resp)
            /\ users' = users
            /\ nextUserId' = nextUserId]_vars

\* A registration with the badge of a stored identity was answered with the
\* badge message, and the store holds that one identity only.
C4_Witness ==
    /\ last.op = "register"
    /\ last.resp = Render("register.html",
                          "This badge number is already registered. Please use a different badge number.")
    /\ \E id \in DOMAIN users :
          users[id].badge = last.form.badge /\ users[id].email # last.form.email
    /\ Cardinality(DOMAIN users) = 1

\* C5: when registrations for one email or one badge interleave, an INSERT that
\* reaches the store after both of the handler's queries found nothing, while a
\* row with that email or badge is there by then, is refused by the store and
\* creates nothing: of the interleaved registrations at most one creates an
\* identity.
C5_StoreRefusesSecondInsert ==
    [][\A c \in Callers :
          (reg[c].pc = "badge_checked" /\ reg'[c].pc = "idle" /\ Taken(reg[c].form)) =>
              /\ users' = users
              /\ last'.resp = ServerError
              /\ Cardinality({id \in DOMAIN users' :
                                 users'[id].email = reg[c].form.email}) <= 1
              /\ Cardinality({id \in DOMAIN users' :
                                 users'[id].badge = reg[c].form.badge}) <= 1]_vars

\* Two registrations for one email both passed the handler's queries; the first
\* created the identity and the store refused the INSERT of the second.
C5_Witness ==
    /\ last.op = "register"
    /\ last.resp = ServerError
    /\ \E id \in DOMAIN users : users[id].email = last.form.email
    /\ Cardinality(DOMAIN users) = 1

\* The request body is a JSON object that holds a non-empty badge and a non-empty pin.
Supplied(body) ==
    /\ body.json
    /\ body.keys = {"badge", "pin"}
    /\ Len(body.badge) > 0
    /\ Len(body.pin) > 0

\* The identities that hold the badge of the request
Holders(body) == {id \in DOMAIN users : users[id].badge = body.badge}

\* The stored PIN digest of identity id is the digest of `pin` under its own salt.
PinVerifies(id, pin) ==
    users[id].pin = [method |-> "pbkdf2:sha256", salt |-> users[id].pin.salt,
                     key |-> <<users[id].pin.salt, pin>>]

\* C6: the API answers 404 "Badge not found" exactly when badge and pin are both
\* supplied non-empty and no identity holds the badge, and then verified no hash;
\* 401 "Invalid PIN" exactly when (both supplied) the identity that holds the
\* badge has a PIN digest the pin does not verify against; 200 exactly when it
\* verifies, and then the body is the id, name, email and stored role of that
\* identity and nothing else of it.
C6_ApiOutcome ==
    last.op = "authenticate_badge_pin" =>
        LET b == last.form
            r == last.resp
        IN  /\ r.status = 404 <=> (Supplied(b) /\ Holders(b) = {})
            /\ r.status = 404 =>
                  /\ r.body = [status |-> "error", message |-> "Badge not found"]
                  /\ last.trace.verifies = 0
            /\ r.status = 401 <=>
                  (Supplied(b) /\ \E id \in Holders(b) : ~PinVerifies(id, b.pin))
            /\ r.status = 401 => r.body = [status |-> "error", message |-> "Invalid PIN"]
            /\ r.status = 200 <=>
                  (Supplied(b) /\ \E id \in Holders(b) : PinVerifies(id, b.pin))
            /\ r.status = 200 =>
                  \E id \in Holders(b) :
                      r.body = [status |-> "success",
                                message |-> "Authentication successful",
                                user_id |-> id,
                                name |-> users[id].name,
                                email |-> users[id].email,
                                category |-> users[id].category]

\* Badge 39 with its holder's PIN was answered 200 with category director,
\* while the store holds a second identity with another PIN.
C6_Witness ==
    /\ last.op = "authenticate_badge_pin"
    /\ last.form.badge = <<"3", "9">>
    /\ last.resp.status = 200
    /\ last.resp.body.category = "director"
    /\ Cardinality(DOMAIN users) = 2

\* C7: a JSON request in which badge or pin is missing or empty is answered 400
\* "Missing badge or pin", a body that is not JSON is answered 400 "Request must
\* be JSON", and neither looked up the store nor verified a hash.
C7_ApiValidation ==
    last.op = "authenticate_badge_pin" =>
        LET b == last.form
            r == last.resp
        IN  /\ (b.json /\ ~Supplied(b)) =>
                  /\ r.status = 400
                  /\ r.body = [status |-> "error", message |-> "Missing badge or pin"]
                  /\ last.trace = [lookups |-> 0, verifies |-> 0]
            /\ ~b.json =>
                  /\ r.status = 400
                  /\ r.body = [status |-> "error", message |-> "Request must be JSON"]
                  /\ last.trace = [lookups |-> 0, verifies |-> 0]

\* The guard's decision for caller c on route op, read in the state after the step
DecisionAfter(c, op) ==
    IF session'[c] \notin DOMAIN users' THEN "RedirectToLogin"
    ELSE IF users'[session'[c]].category \notin RequiredRoles[op] THEN "Forbidden"
    ELSE "Allow"

\* C8: a call of the API, whatever it answers, leaves every session, the
\* identity store and the content store as they were, so the guard decides every
\* later gated request of every caller as it would have before the call; and the
\* identity in a 200 answer is the holder of the badge, whoever the caller's
\* session is bound to.
C8_ApiSessionIndependent ==
    [][last'.op = "authenticate_badge_pin" =>
          /\ session' = session
          /\ store' = store
          /\ \A c \in Callers, op \in GuardedOps :
                DecisionAfter(c, op) = decorated_function(c, RequiredRoles[op])
          /\ last'.resp.status = 200 =>
                last'.resp.body.user_id \in Holders(last'.form)]_vars

\* A caller without a session got 200 from the API for an executive's badge and
\* PIN, and its session is still bound to nobody.
C8_Witness ==
    /\ last.op = "authenticate_badge_pin"
    /\ last.resp.status = 200
    /\ last.resp.body.category = "executive"
    /\ session[last.caller] = Anonymous

\* The stored password digest of identity id is the digest of `password` under
\* its own salt.
PasswordVerifies(id, password) ==
    users[id].password = [method |-> "pbkdf2:sha256", salt |-> users[id].password.salt,
                          key |-> <<users[id].password.salt, password>>]

\* C9: a caller's session becomes bound to an identity only in a login request
\* of that caller that supplied the identity's email and a password its stored
\* password digest verifies; a login (with both fields filled in) for an email
\* no identity has is answered "does not exist", one with a password that does
\* not verify is answered "incorrect", and both leave every session as it was.
C9_LoginBindsSession ==
    /\ [][\A c \in Callers :
            (session'[c] # session[c] /\ session'[c] # Anonymous) =>
                /\ last'.op = "login" /\ last'.caller = c
                /\ session'[c] \in DOMAIN users
                /\ users[session'[c]].email = last'.form.email
                /\ PasswordVerifies(session'[c], last'.form.password)]_vars
    /\ [][(last'.op = "login" /\ Len(last'.form.password) > 0) =>
            LET f == last'.form
                known == {id \in DOMAIN users : users[id].email = f.email}
            IN  /\ known = {} =>
                      /\ last'.resp.flash = "That email does not exist, please try again."
                      /\ session' = session
                /\ (known # {} /\ \A id \in known : ~PasswordVerifies(id, f.password)) =>
                      /\ last'.resp.flash = "Password incorrect, please try again."
                      /\ session' = session]_vars

\* A caller logged in with the second identity's email and password, and its
\* session is bound to that identity, not to the first.
C9_Witness ==
    /\ last.op = "login"
    /\ session[last.caller] = 2
    /\ Cardinality(DOMAIN users) = 2
    /\ users[2].email = last.form.email
    /\ last.resp = Redirect(UrlForGetAllPosts, "")

\* C10: a register request, accepted or refused, leaves every session bound as
\* it was; a caller whose session is bound to no identity before it registers
\* is bound to none after, so the guard still sends it to login on every gated
\* route.
C10_RegisterDoesNotAuthenticate ==
    [][last'.op = "register" =>
          /\ session' = session
          /\ session[last'.caller] = Anonymous =>
                \A op \in GuardedOps : DecisionAfter(last'.caller, op) = "RedirectToLogin"]_vars

\* A caller without a session registered an executive and is still anonymous.
C10_Witness ==
    /\ last.op = "register"
    /\ RegistrationSucceeded(last.resp)
    /\ last.form.badge = <<"1">>
    /\ session[last.caller] = Anonymous

\* The session of caller c holds the id of an identity that is no longer stored.
Revoked(c) == session[c] # Anonymous /\ session[c] \notin DOMAIN users

C12_SelfDeleteRefused ==
    [][last'.op = "delete_user" =>
          LET c == last'.caller
          IN  /\ \A id \in UserIds :
                    (last'.url = UrlDeleteUser(id) /\ id = session[c]) =>
                        /\ store' = store
                        /\ session' = session
                        /\ (id \in DOMAIN users /\ users[id].category = "executive") =>
                              last'.resp =
                                  Redirect(UrlForAdminDashboard,
                                           "You cannot delete your own account from the dashboard.")
              /\ session[c] \in DOMAIN users => session[c] \in DOMAIN users']_vars

\* An executive asked to delete its own account while a second identity is
\* stored; it was refused and both identities are still there.
C12_Witness ==
    /\ last.op = "delete_user"
    /\ last.url = UrlDeleteUser(session[last.caller])
    /\ last.resp.flash = "You cannot delete your own account from the dashboard."
    /\ session[last.caller] \in DOMAIN users
    /\ Cardinality(DOMAIN users) = 2

\* C13: in every reachable state the author of every post and of every comment
\* is a stored identity.
C13_AuthorsExist ==
    /\ \A id \in DOMAIN posts : posts[id].author_id \in DOMAIN users
    /\ \A id \in DOMAIN comments : comments[id].author_id \in DOMAIN users

\* delete_user removed an identity that had written a post and a comment: both
\* went with it, and the executive that deleted it is still stored.
C13_Witness ==
    /\ last.op = "delete_user"
    /\ last.resp.flash = "User has been deleted successfully."
    /\ nextPostId > 1 /\ DOMAIN posts = {}
    /\ nextCommentId > 1 /\ DOMAIN comments = {}
    /\ Cardinality(DOMAIN users) = 1

\* C14: an identity, from the step that stores it to the step that deletes it,
\* keeps its email, badge, role and both digests through every request; rows
\* appear only by register and disappear only by delete_user; and in every
\* state the stored role of each identity is determine_user_category of its
\* stored badge.
C14_IdentityFrozen ==
    /\ [][/\ \A id \in DOMAIN users \cap DOMAIN users' :
                /\ users'[id].email = users[id].email
                /\ users'[id].badge = users[id].badge
                /\ users'[id].category = users[id].category
                /\ users'[id].password = users[id].password
                /\ users'[id].pin = users[id].pin
          /\ (DOMAIN users') \ (DOMAIN users) # {} => last'.op = "register"
          /\ (DOMAIN users) \ (DOMAIN users') # {} => last'.op = "delete_user"]_vars
    /\ [](\A id \in DOMAIN users :
            users[id].category = determine_user_category(users[id].badge))

\* A director logged in and edited a post, the API then authenticated it by
\* badge and PIN, and the answer carries the role stored at registration.
C14_Witness ==
    /\ last.op = "authenticate_badge_pin"
    /\ last.resp.status = 200
    /\ last.resp.body.category = "director"
    /\ session[last.caller] = last.resp.body.user_id
    /\ \E id \in DOMAIN posts : posts[id].author_id = session[last.caller]

\* C15: determine_user_category answers unknown for None and for the empty
\* badge; for a badge whose first character is '1'..'7' it answers executive,
\* vip, director, manager, newHire, campaign, regular in that order; for any
\* other first character unknown; and any badge with the same first character
\* gets the same answer.
C15_ClassifyByFirstCharacter ==
    (last.op = "determine_user_category" /\ last.resp # Pending) =>
        LET b == last.form.badge_number
            r == last.resp.body.value
        IN  IF b = None \/ b = <<>> THEN r = "unknown"
            ELSE /\ b[1] = "1" => r = "executive"
                 /\ b[1] = "2" => r = "vip"
                 /\ b[1] = "3" => r = "director"
                 /\ b[1] = "4" => r = "manager"
                 /\ b[1] = "5" => r = "newHire"
                 /\ b[1] = "6" => r = "campaign"
                 /\ b[1] = "7" => r = "regular"
                 /\ b[1] \notin {"1", "2", "3", "4", "5", "6", "7"} => r = "unknown"
                 /\ \A b2 \in ClassifyBadges \ {None, <<>>} :
                       b2[1] = b[1] => determine_user_category(b2) = r

\* Badge 3999 was classified director.
C15_Witness ==
    /\ last.op = "determine_user_category"
    /\ last.form.badge_number = <<"3", "9", "9", "9">>
    /\ last.resp # Pending
    /\ last.resp.body.value = "director"

\* A string of 4 to 6 decimal digits
NumericPin(s) ==
    /\ Len(s) \in 4..6
    /\ \A i \in 1..Len(s) : s[i] \in {"0", "1", "2", "3", "4", "5", "6", "7", "8", "9"}

\* The answer of register() to a form its validators refused
ValidationFailure(resp) == resp = Render("register.html", "")

\* C16: a registration whose PIN is not a string of 4 to 6 decimal digits is
\* answered as a validation failure and stores nothing; one whose PIN has
\* exactly 4 or exactly 6 digits passes validation; and every stored PIN digest
\* is the digest of a string of 4 to 6 decimal digits.
C16_PinFormat ==
    /\ [][last'.op = "register" =>
            /\ ~NumericPin(last'.form.pin) =>
                  /\ ValidationFailure(last'.resp)
                  /\ users' = users
            /\ NumericPin(last'.form.pin) => ~ValidationFailure(last'.resp)]_vars
    /\ [](\A id \in DOMAIN users : NumericPin(users[id].pin.key[2]))

\* C17: a logout leaves its caller's session bound to no identity and every
\* other session as it was; a session bound to no identity stays so until a
\* login of that caller succeeds, and meanwhile the guard's decision for the
\* caller on every gated route is the redirect to login, which is what each
\* gated request it makes is answered with; a session bound to an identity
\* changes only in a logout or a successful login of its own caller, and while
\* that identity is stored no gated request of the caller is sent to login.
C17_LogoutEndsSession ==
    /\ [][last'.op = "logout" =>
            /\ session'[last'.caller] = Anonymous
            /\ \A c \in Callers \ {last'.caller} : session'[c] = session[c]
            /\ store' = store]_vars
    /\ [][\A c \in Callers :
            (session[c] = Anonymous /\ session'[c] # Anonymous) =>
                /\ last'.op = "login" /\ last'.caller = c
                /\ last'.resp.status = 302 /\ ~ToLogin(last'.resp)]_vars
    /\ [](\A c \in Callers : session[c] = Anonymous =>
            \A op \in GuardedOps :
                decorated_function(c, RequiredRoles[op]) = "RedirectToLogin")
    /\ [][last'.op \in GuardedOps =>
            /\ session[last'.caller] = Anonymous =>
                  ToLogin(last'.resp) /\ store' = store
            /\ session[last'.caller] \in DOMAIN users => ~ToLogin(last'.resp)]_vars
    /\ [][\A c \in Callers :
            (session[c] # Anonymous /\ session'[c] # session[c]) =>
                /\ last'.caller = c
                /\ last'.op \in {"logout", "login"}]_vars

\* A caller logged out while the executive it had been logged in as is still
\* stored and the other caller is still logged in.
C17_Witness ==
    /\ last.op = "logout"
    /\ session[last.caller] = Anonymous
    /\ \E c \in Callers \ {last.caller} : session[c] \in DOMAIN users
    /\ \E id \in DOMAIN users : users[id].category = "executive"

\* C18: a gated request of a caller logged in as an executive is never refused;
\* one of a director is refused (403) exactly on delete_post, admin_dashboard
\* and delete_user; one of a vip, manager, newHire, campaign, regular or unknown
\* identity is always refused and changes nothing.  So every gated route that
\* admits director admits executive, some admit executive and not director,
\* and none admits any other role.
C18_PermissionOrdering ==
    /\ [][(last'.op \in GuardedOps /\ session[last'.caller] \in DOMAIN users) =>
            LET role == users[session[last'.caller]].category
                r == last'.resp
            IN  /\ role = "executive" => (r.status # 403 /\ ~ToLogin(r))
                /\ role = "director" =>
                      /\ ~ToLogin(r)
                      /\ r.status = 403 <=>
                            last'.op \in {"delete_post", "admin_dashboard", "delete_user"}
                /\ role \notin {"executive", "director"} =>
                      (r.status = 403 /\ store' = store)]_vars
    /\ [](/\ \A op \in GuardedOps :
                "director" \in RequiredRoles[op] => "executive" \in RequiredRoles[op]
          /\ \E op \in GuardedOps :
                "executive" \in RequiredRoles[op] /\ "director" \notin RequiredRoles[op]
          /\ \A op \in GuardedOps : RequiredRoles[op] \subseteq {"executive", "director"})

\* A director was refused the dashboard while an executive is stored.
C18_Witness ==
    /\ last.op = "admin_dashboard"
    /\ last.resp.status = 403
    /\ session[last.caller] \in DOMAIN users
    /\ users[session[last.caller]].category = "director"
    /\ \E id \in DOMAIN users : users[id].category = "executive"

\* C19: in every reachable state the post of every comment is a stored post.
C19_CommentsHavePosts ==
    \A id \in DOMAIN comments : comments[id].post_id \in DOMAIN posts

\* An executive asked to delete a post that has a comment: the store refused
\* to leave the comment without its post, and both are still there.
C19_Witness ==
    /\ last.op = "delete_post"
    /\ last.resp = ServerError
    /\ \E id \in DOMAIN comments : comments[id].post_id \in DOMAIN posts
    /\ \E id \in DOMAIN posts : last.url = UrlDeletePost(id)

\* C20: a show_post request of a caller whose session is bound to no stored
\* identity creates no comment, and when it submits a comment on a stored post
\* it is redirected to login with the post's URL as the next argument; every
\* comment that appears in the store appears in a show_post step, on the post
\* of the request, with the text of the form and with the identity the
\* caller's session was bound to at that request as its author.
C20_CommentsNeedSession ==
    /\ [][(last'.op = "show_post" /\ session[last'.caller] \notin DOMAIN users) =>
            /\ comments' = comments
            /\ nextCommentId' = nextCommentId
            /\ \A id \in DOMAIN posts :
                  (last'.url = UrlForShowPost(id) /\ Len(last'.form.comment_text) > 0) =>
                      /\ ToLogin(last'.resp)
                      /\ RequestArgsGet(last'.resp.location, <<"next">>) = UrlForShowPost(id)]_vars
    /\ [][\A id \in (DOMAIN comments') \ (DOMAIN comments) :
            /\ last'.op = "show_post"
            /\ session[last'.caller] \in DOMAIN users
            /\ comments'[id].author_id = session[last'.caller]
            /\ comments'[id].post_id \in DOMAIN posts
            /\ last'.url = UrlForShowPost(comments'[id].post_id)
            /\ comments'[id].text = last'.form.comment_text]_vars

\* A caller that had written a post logged out and then submitted a comment on
\* it: no comment was stored and it was sent to login.
C20_Witness ==
    /\ last.op = "show_post"
    /\ session[last.caller] = Anonymous
    /\ ToLogin(last.resp)
    /\ \E id \in DOMAIN posts : last.url = UrlForShowPost(id)
    /\ DOMAIN comments = {}

=============================================================================
